---------------------------- MODULE Spec2Model ----------------------------
(***************************************************************************)
(* A model of watchdog_plus: the name generation of managers/manager.py,   *)
(* the observer registry and the start/stop lifecycle of                   *)
(* managers/observer_manager.py, the change-log of handlers/event_handler  *)
(* and handlers/logger/event_logger, the service registry of               *)
(* managers/service_manager.py and the service processes of                *)
(* services/watchdog_service.py.                                           *)
(*                                                                         *)
(* A Python str is a sequence of one-character strings, so that strip,     *)
(* split and removesuffix are computed character by character.             *)
(***************************************************************************)
EXTENDS Integers, Sequences, FiniteSets, TLC

VARIABLES
    gn,             \* activation record of Manager.generate_names
    all_observers_, \* ObserverManager.all_observers_ (ObserversCollection)
    services,       \* ServiceManager.services (ServiceCollection)
    call,           \* the last public call: its operation, arguments and outcome
    spc,            \* where the calling thread is inside start_observer
    sidx,           \* index in all_observers_ of the observer start_observer found
    remaining,      \* seconds left of join(duration); 0 in the `while True` form
    intr,           \* where control was at each interrupt of the last start_observer call
    workers,        \* the tasks of the pool a start_observers call has opened
    file_,          \* EventLogger.file_: the change-log file on disk
    wk,             \* each observer thread's position inside EventHandler.dispatch
    disp,           \* the events dispatched so far, and whether two writes overlapped
    disk,           \* the service files written so far
    procs,          \* the processes the services spawned, in the order of their pids
    kills,          \* the signals os.kill has delivered
    wsvc            \* the WatchdogService objects the caller holds

\* the change-log and the threads that write it
logVars == <<file_, wk, disp>>
\* the service files, the processes and the service objects
svcVars == <<disk, procs, kills, wsvc>>

vars == <<gn, all_observers_, services, call, spc, sidx, remaining, intr, workers,
          file_, wk, disp, disk, procs, kills, wsvc>>
regVars == <<all_observers_, services, call, spc, sidx, remaining, intr, workers,
             logVars, svcVars>>
\* the name generation, the registries and the calling thread
obsVars == <<gn, all_observers_, services, call, spc, sidx, remaining, intr, workers>>

---------------------------------------------------------------------------
(* Bounds of the model. *)

\* generate_names and create_observers take at most this many paths
MaxPaths == 3
\* the shortening loop is followed for at most this many iterations in a call
MaxShorten == 6
\* entries per registry
MaxEntries == 3
\* start_observer(name, duration) takes a duration of 0..MaxDuration seconds
MaxDuration == 2
\* interrupts delivered during one start call
MaxInterrupts == 2
\* start_observers takes at most this many names
MaxNames == 2
\* events dispatched to the shared handler in one behaviour
MaxDispatch == 2
\* WatchdogService objects the caller holds
MaxServices == 2
\* processes spawned in one behaviour
MaxProcs == 2
\* signals delivered in one behaviour
MaxKills == 1

---------------------------------------------------------------------------
(* Python values. *)

\* None, kept apart from every str (no str has an element of several characters)
NoneVal == <<"<None>">>

SLASH == "/"

\* "/a/l" etc.: the paths the operations are called with
P_a_l == <<"/", "a", "/", "l">>
P_b_l == <<"/", "b", "/", "l">>
P_c_d == <<"/", "c", "/", "d">>
P_a_x_l == <<"/", "a", "/", "x", "/", "l">>
P_b_x_l == <<"/", "b", "/", "x", "/", "l">>
P_c_x_l == <<"/", "c", "/", "x", "/", "l">>
P_l == <<"/", "l">>
P_rel_l == <<"l">>
P_a_l_trail == <<"/", "a", "/", "l", "/">>
P_rel_b_l == <<"b", "/", "l">>
P_a_lo == <<"/", "a", "/", "l", "o">>
P_root == <<"/">>
P_d_l == <<"/", "d", "/", "l">>

Paths ==
    { P_a_l, P_b_l, P_c_d, P_a_x_l, P_b_x_l, P_c_x_l,
      P_l, P_rel_l, P_a_l_trail, P_rel_b_l, P_a_lo, P_root, P_d_l }

RECURSIVE SeqsUpTo(_, _)
\* the sequences over S of length 0..n
SeqsUpTo(S, n) ==
    IF n = 0 THEN { <<>> }
    ELSE LET shorter == SeqsUpTo(S, n - 1)
         IN  shorter \cup { Append(s, x) : s \in { t \in shorter : Len(t) = n - 1 }, x \in S }

InSeq(x, s) == \E i \in 1..Len(s) : s[i] = x

---------------------------------------------------------------------------
(* str methods. *)

RECURSIVE lstrip(_)
lstrip(s) ==
    IF s # <<>> /\ Head(s) = SLASH THEN lstrip(Tail(s)) ELSE s

RECURSIVE rstrip(_)
rstrip(s) ==
    IF s # <<>> /\ s[Len(s)] = SLASH THEN rstrip(SubSeq(s, 1, Len(s) - 1)) ELSE s

\* s.strip("/")
strip(s) == rstrip(lstrip(s))

RECURSIVE split(_)
\* s.split("/"): never empty; "" splits to [""]
split(s) ==
    IF \A i \in 1..Len(s) : s[i] # SLASH THEN << s >>
    ELSE LET k == CHOOSE i \in 1..Len(s) :
                      s[i] = SLASH /\ \A j \in 1..(i - 1) : s[j] # SLASH
         IN  << SubSeq(s, 1, k - 1) >> \o split(SubSeq(s, k + 1, Len(s)))

endswith(s, suffix) ==
    /\ Len(suffix) <= Len(s)
    /\ SubSeq(s, Len(s) - Len(suffix) + 1, Len(s)) = suffix

\* s.removesuffix(suffix)
removesuffix(s, suffix) ==
    IF suffix # <<>> /\ endswith(s, suffix)
    THEN SubSeq(s, 1, Len(s) - Len(suffix))
    ELSE s

\* lst[k] for a negative k; IndexError is reported as NoneVal
negindex(lst, k) ==
    IF Len(lst) + k + 1 >= 1 /\ k < 0 THEN lst[Len(lst) + k + 1] ELSE NoneVal

---------------------------------------------------------------------------
(* managers/manager.py *)

generate_name_first(path) == split(strip(path))[1]

\* Manager.generate_name
generate_name(path) ==
    LET parts == split(strip(path)) IN parts[Len(parts)]

\* dict[k] = v
DictSet(d, k, v) == { e \in d : e[1] # k } \cup { <<k, v>> }

DictGet(d, k) == (CHOOSE e \in d : e[1] = k)[2]

\* generate_names, line 21: names, position_data, pos = list(), dict(), -1
\* trail[i] lists the candidates the while loop rejected for paths[i]
\* (a history of the loop, not a variable of the code)
gn_enter(ps) ==
    [ pc |-> "for", paths |-> ps, idx |-> 1, names |-> <<>>,
      position_data |-> {}, pos |-> -1, name |-> NoneVal, trail |-> <<>> ]

\* no call of generate_names is in progress
gn_idle ==
    [ pc |-> "idle", paths |-> <<>>, idx |-> 1, names |-> <<>>,
      position_data |-> {}, pos |-> -1, name |-> NoneVal, trail |-> <<>> ]

\* lines 22-23: the next path_ of the for loop and its first candidate
gn_for(f) ==
    IF f.idx <= Len(f.paths)
    THEN [ f EXCEPT !.name = generate_name(f.paths[f.idx]),
                    !.pc = "while",
                    !.trail = Append(@, <<>>) ]
    ELSE [ f EXCEPT !.pc = "write_positions", !.name = NoneVal ]

gn_while_cond_once(f) == InSeq(f.name, f.names) /\ f.trail[f.idx] = <<>>

\* line 24: while name in names
gn_while_cond(f) == InSeq(f.name, f.names)

\* lines 25-26: pos -= 1; name = generate_name(path_.removesuffix(f"/{name}"))
gn_shorten(f) ==
    [ f EXCEPT !.pos = @ - 1,
               !.name = generate_name(removesuffix(f.paths[f.idx], <<SLASH>> \o f.name)),
               !.trail[f.idx] = Append(@, f.name) ]

\* lines 27-28: names.append(name); position_data[name] = pos
gn_append(f) ==
    [ f EXCEPT !.names = Append(@, f.name),
               !.position_data = DictSet(@, f.name, f.pos),
               !.idx = @ + 1,
               !.pc = "for" ]

\* ObserverManager.write_positions: self.handle is no attribute of the manager
\* (the constructor sets self.handler), so line 75 raises AttributeError
write_positions(position_data) == "AttributeError"

\* line 30: the exception of write_positions leaves generate_names
gn_write(f) ==
    [ f EXCEPT !.pc = IF write_positions(f.position_data) = "ok"
                      THEN "returned" ELSE "raised" ]

\* the shortening steps taken so far in the call
gn_steps(f) ==
    LET RECURSIVE Sum(_)
        Sum(i) == IF i = 0 THEN 0 ELSE Len(f.trail[i]) + Sum(i - 1)
    IN  Sum(Len(f.trail))

---------------------------------------------------------------------------
(* generate_names as a state machine: one action per line of control. *)

\* a call starts from fresh locals whatever an earlier call left, so one call
\* per behaviour reaches every state a call can be in
GenerateNames ==
    /\ gn.pc = "idle"
    /\ \E ps \in SeqsUpTo(Paths, MaxPaths) : gn' = gn_enter(ps)
    /\ UNCHANGED regVars

ForNext ==
    /\ gn.pc = "for"
    /\ gn' = gn_for(gn)
    /\ UNCHANGED regVars

WhileShorten ==
    /\ gn.pc = "while"
    /\ gn_while_cond(gn)
    /\ gn_steps(gn) < MaxShorten
    /\ gn' = gn_shorten(gn)
    /\ UNCHANGED regVars

WhileExit ==
    /\ gn.pc = "while"
    /\ ~ gn_while_cond(gn)
    /\ gn' = gn_append(gn)
    /\ UNCHANGED regVars

WritePositions ==
    /\ gn.pc = "write_positions"
    /\ gn' = gn_write(gn)
    /\ UNCHANGED regVars

InitReg ==
    /\ all_observers_ = <<>>
    /\ services = <<>>
    /\ call = [ op |-> "none", args |-> <<>>, outcome |-> "none", before |-> <<>> ]
    /\ spc = "idle"
    /\ sidx = 0
    /\ remaining = 0
    /\ intr = <<>>
    /\ workers = <<>>

\* EventLogger.__init__ makes the log directory and opens no file; no observer
\* thread has dispatched an event
InitLog ==
    /\ file_ = [ kind |-> "absent", data |-> {} ]
    /\ wk = [ w \in { <<"l">>, <<"b">> } |->
                [ pc |-> "idle", event |-> [ event_type |-> "none", src_path |-> <<"<None>">> ],
                  found |-> [ kind |-> "absent", data |-> {} ], change |-> {},
                  raised |-> "none", wrote |-> FALSE ] ]
    /\ disp = [ n |-> 0, seen |-> {}, overlap |-> FALSE ]

\* no service file is written, no service process runs
InitSvc ==
    /\ disk = {}
    /\ procs = <<>>
    /\ kills = <<>>
    /\ wsvc = <<>>

InitNames ==
    /\ gn = gn_idle
    /\ InitReg
    /\ InitLog
    /\ InitSvc

NextNames ==
    \/ GenerateNames
    \/ ForNext
    \/ WhileShorten
    \/ WhileExit
    \/ WritePositions

SpecNames == InitNames /\ [][NextNames]_vars

---------------------------------------------------------------------------
(* generate_names run to its end inside a caller. *)

RECURSIVE gn_run(_)
\* the frame generate_names ends in; pc = "diverged" when the while loop meets
\* a candidate it has already rejected for the same path, which it then meets
\* for ever
gn_run(f) ==
    IF f.pc = "for" THEN gn_run(gn_for(f))
    ELSE IF f.pc = "while" THEN
        IF gn_while_cond(f)
        THEN IF InSeq(f.name, f.trail[f.idx])
             THEN [ f EXCEPT !.pc = "diverged" ]
             ELSE gn_run(gn_shorten(f))
        ELSE gn_run(gn_append(f))
    ELSE IF f.pc = "write_positions" THEN gn_write(f)
    ELSE f

---------------------------------------------------------------------------
(* managers/observer_manager.py, managers/service_manager.py: registries. *)

\* the paths and names observers are created with
ObsPaths == { P_a_l, P_b_l, P_c_d }
ObsNames == { NoneVal, <<>>, <<"w">> }

\* the paths create_observers is called with
BatchPaths == { P_a_l, P_b_l }

\* the names lookups and starts are asked for
AskNames == { <<"l">>, <<"d">>, <<"z">> }

\* the service descriptors appended to a ServiceCollection
SvcNames == { <<"s">>, <<"t">> }

\* ObserverPlus() followed by schedule(handler, path) and the name assignment
NewObserver(path, name) == [ name |-> name, path |-> path, state |-> "Created" ]

HasName(collection, name) == \E i \in 1..Len(collection) : collection[i].name = name

ObserversCollection_append_unchecked(self, value) ==
    [ list |-> Append(self, value), raised |-> "none" ]

ObserversCollection_append_front(self, value) ==
    IF \E i \in 1..Len(self) : self[i].name = value.name
    THEN [ list |-> self, raised |-> "AlreadyExists" ]
    ELSE [ list |-> << value >> \o self, raised |-> "none" ]

\* ObserversCollection.append
ObserversCollection_append(self, value) ==
    IF \E i \in 1..Len(self) : self[i].name = value.name
    THEN [ list |-> self, raised |-> "AlreadyExists" ]
    ELSE [ list |-> Append(self, value), raised |-> "none" ]

\* ServiceCollection.append: AlreadyExists is not imported by
\* service_manager.py, so line 63 raises NameError in its place
ServiceCollection_append(self, value) ==
    IF \E i \in 1..Len(self) : self[i].name = value.name
    THEN [ list |-> self, raised |-> "NameError" ]
    ELSE [ list |-> Append(self, value), raised |-> "none" ]

get_by_name_or_first(name, collection) ==
    LET hits == { i \in 1..Len(collection) : collection[i].name = name }
    IN  IF hits = {} THEN (IF Len(collection) > 0 THEN 1 ELSE 0)
        ELSE CHOOSE i \in hits : \A j \in hits : i <= j

\* Manager.get_by_name: the index of the first item of that name;
\* 0 stands for the ServiceNotFound it raises when there is none
get_by_name(name, collection) ==
    LET hits == { i \in 1..Len(collection) : collection[i].name = name }
    IN  IF hits = {} THEN 0 ELSE CHOOSE i \in hits : \A j \in hits : i <= j

\* the public call a caller made last; `before` is what the call found (a
\* history of the call, not a variable of the code): the observer registry,
\* or the service registry or the process table for a call on services; the
\* args of a send_signal also record the signals the call delivered
Call(op, args, outcome, before) ==
    [ op |-> op, args |-> args, outcome |-> outcome, before |-> before ]

\* create_observer, lines 153-156: the observer it is about to append
create_observer_value(path, name) ==
    NewObserver(path, IF name # NoneVal /\ name # <<>> THEN name ELSE generate_name(path))

\* ObserverManager.create_observer
CreateObserver(path, name) ==
    /\ spc = "idle"
    /\ Len(all_observers_) < MaxEntries
    /\ LET r == ObserversCollection_append(all_observers_, create_observer_value(path, name))
       IN  /\ all_observers_' = r.list
           /\ call' = Call("create_observer", [ path |-> path, name |-> name ],
                           IF r.raised = "none" THEN "returned" ELSE r.raised,
                           all_observers_)
    /\ UNCHANGED <<gn, workers, logVars, svcVars, services, spc, sidx, remaining, intr>>

\* ObserverManager.create_observers: generate_names(paths) is evaluated when the
\* generator expression is built (line 170); it raises out of write_positions
\* or never ends.  Had it returned, line 173 would raise AttributeError, a list
\* having no update, before the generator is advanced.  `names` is not read.
CreateObservers(paths, names) ==
    /\ spc = "idle"
    /\ LET f == gn_run(gn_enter(paths))
       IN  IF f.pc = "diverged"
           THEN /\ spc' = "diverged"
                /\ call' = Call("create_observers", [ paths |-> paths, names |-> names ],
                                "pending", all_observers_)
           ELSE /\ spc' = spc
                /\ call' = Call("create_observers", [ paths |-> paths, names |-> names ],
                                "AttributeError", all_observers_)
    /\ UNCHANGED <<gn, workers, logVars, svcVars, all_observers_, services, sidx, remaining, intr>>

\* services.append(value) on the manager's ServiceCollection
AppendService(value) ==
    /\ spc = "idle"
    /\ Len(services) < MaxEntries
    /\ LET r == ServiceCollection_append(services, value)
       IN  /\ services' = r.list
           /\ call' = Call("services.append", [ value |-> value ],
                           IF r.raised = "none" THEN "returned" ELSE r.raised,
                           all_observers_)
    /\ UNCHANGED <<gn, workers, logVars, svcVars, all_observers_, spc, sidx, remaining, intr>>

\* names = None, the default of create_observers, kept apart from every list of
\* names (no name has an element of several characters)
NoNames == << NoneVal >>

\* the names a caller supplies with a batch of paths: "n", "nn", "nnn", ...
SuppliedNames(paths) == [ k \in 1..Len(paths) |-> [ j \in 1..k |-> "n" ] ]

NextRegistry ==
    \/ \E path \in ObsPaths, name \in ObsNames : CreateObserver(path, name)
    \/ \E paths \in SeqsUpTo(BatchPaths, MaxPaths) :
           \E names \in { NoNames, SuppliedNames(paths) } : CreateObservers(paths, names)
    \/ \E n \in SvcNames : AppendService([ name |-> n, run_on_startup |-> FALSE ])

SpecRegistry == InitNames /\ [][NextRegistry]_vars

---------------------------------------------------------------------------
(* managers/observer_manager.py: starting observers. *)

\* the keyword a start_observers call names its start method with
StartMethods == { "THREAD", "MULTIPROCESSES" }

\* ObserverPlus.start: Created -> Running; a thread object starts once only
observer_start(o) ==
    IF o.state = "Created"
    THEN [ obs |-> [ o EXCEPT !.state = "Running" ], raised |-> "none" ]
    ELSE [ obs |-> o, raised |-> "RuntimeError" ]

\* ObserverPlus.stop
observer_stop(o) == [ o EXCEPT !.state = "Stopped" ]

\* start_observer, line 180, and __start_observer, line 90: the lookup, then
\* observer_.start() ahead of the try block
StartObserver(name, duration) ==
    /\ spc = "idle"
    /\ LET i == get_by_name(name, all_observers_)
           args == [ name |-> name, duration |-> duration ]
       IN  IF i = 0
           THEN /\ call' = Call("start_observer", args, "ServiceNotFound", all_observers_)
                /\ sidx' = 0
                /\ intr' = <<>>
                /\ UNCHANGED <<all_observers_, spc, remaining>>
           ELSE LET r == observer_start(all_observers_[i])
                IN  IF r.raised # "none"
                    THEN /\ call' = Call("start_observer", args, r.raised, all_observers_)
                         /\ sidx' = i
                         /\ intr' = <<>>
                         /\ UNCHANGED <<all_observers_, spc, remaining>>
                    ELSE /\ call' = Call("start_observer", args, "pending", all_observers_)
                         /\ all_observers_' = [ all_observers_ EXCEPT ![i] = r.obs ]
                         /\ spc' = "started"
                         /\ sidx' = i
                         /\ remaining' = duration
                         /\ intr' = <<>>
    /\ UNCHANGED <<gn, workers, logVars, svcVars, services>>

\* __start_observer, lines 92-97: control enters the try block and blocks in
\* observer_.join(duration) or in the first observer_.join(1)
EnterTry ==
    /\ spc = "started"
    /\ spc' = "join"
    /\ UNCHANGED <<gn, workers, logVars, svcVars, all_observers_, services, call, sidx, remaining, intr>>

JoinTickStops ==
    /\ spc = "join"
    /\ IF call.args.duration = 0
       THEN UNCHANGED <<spc, remaining, call, all_observers_>>
       ELSE IF remaining > 1
            THEN /\ remaining' = remaining - 1
                 /\ UNCHANGED <<spc, call, all_observers_>>
            ELSE /\ remaining' = 0
                 /\ spc' = "idle"
                 /\ call' = [ call EXCEPT !.outcome = "returned" ]
                 /\ all_observers_' = [ all_observers_ EXCEPT ![sidx] = observer_stop(@) ]
    /\ UNCHANGED <<gn, workers, logVars, svcVars, services, sidx, intr>>

\* one second passes in the join: join(1) returns and the `while True` loop
\* calls it again, or join(duration) has a second less to wait; when
\* join(duration) times out __start_observer returns, the observer untouched
JoinTick ==
    /\ spc = "join"
    /\ IF call.args.duration = 0
       THEN UNCHANGED <<spc, remaining, call>>
       ELSE IF remaining > 1
            THEN /\ remaining' = remaining - 1
                 /\ UNCHANGED <<spc, call>>
            ELSE /\ remaining' = 0
                 /\ spc' = "idle"
                 /\ call' = [ call EXCEPT !.outcome = "returned" ]
    /\ UNCHANGED <<gn, workers, logVars, svcVars, all_observers_, services, sidx, intr>>

InterruptPropagates ==
    /\ spc \in { "started", "join", "except", "final_join" }
    /\ Len(intr) < MaxInterrupts
    /\ intr' = Append(intr, spc)
    /\ spc' = "idle"
    /\ call' = [ call EXCEPT !.outcome = "KeyboardInterrupt" ]
    /\ UNCHANGED <<gn, workers, logVars, svcVars, all_observers_, services, sidx, remaining>>

\* KeyboardInterrupt reaches the calling thread: inside the try block
\* (lines 92-97) the except clause of line 98 takes it; anywhere else in
\* __start_observer it leaves the call
Interrupt ==
    /\ spc \in { "started", "join", "except", "final_join" }
    /\ Len(intr) < MaxInterrupts
    /\ intr' = Append(intr, spc)
    /\ IF spc = "join"
       THEN /\ spc' = "except"
            /\ UNCHANGED call
       ELSE /\ spc' = "idle"
            /\ call' = [ call EXCEPT !.outcome = "KeyboardInterrupt" ]
    /\ UNCHANGED <<gn, workers, logVars, svcVars, all_observers_, services, sidx, remaining>>

\* line 100: observer_.stop()
ExceptStop ==
    /\ spc = "except"
    /\ all_observers_' = [ all_observers_ EXCEPT ![sidx] = observer_stop(@) ]
    /\ spc' = "final_join"
    /\ UNCHANGED <<gn, workers, logVars, svcVars, services, call, sidx, remaining, intr>>

\* line 101: observer_.join() returns, the observer being stopped, and
\* __start_observer returns
FinalJoin ==
    /\ spc = "final_join"
    /\ spc' = "idle"
    /\ call' = [ call EXCEPT !.outcome = "returned" ]
    /\ UNCHANGED <<gn, workers, logVars, svcVars, all_observers_, services, sidx, remaining, intr>>

\* __start_observers, lines 115 and 122 (133): the executor is built with
\* max_workers = len(observers_), which it refuses with ValueError when the
\* batch is empty; otherwise map() submits one task per observer
start_observers_pool(observers_, start_method) ==
    IF start_method \in StartMethods /\ Len(observers_) = 0
    THEN "ValueError" ELSE "submitted"

\* lines 127 and 138: map(self.__start_observer, observers_) queues the call
\* __start_observer(observer_) for every observer of the batch; `name` is the
\* name of the worker that takes the task, None while it is queued
pool_map(observers_) ==
    [ k \in 1..Len(observers_) |->
        [ obs |-> observers_[k], pc |-> "queued", raised |-> "none", name |-> NoneVal ] ]

\* thread_pool._threads (line 124) and process_pool._processes (line 135) when
\* the naming loop runs: the executor makes its workers when work is
\* submitted, so right after the constructor it has none
pool_workers_at_naming == <<>>

\* the name the executor gives its j-th worker ("ThreadPoolExecutor-0_<j>",
\* "ForkProcess-<j>"), shortened
default_worker_name(j) == <<"T", "-">> \o << <<"0", "1", "2", "3", "4">>[j] >>

\* lines 124-125 and 135-136: the workers zip() pairs with a name take it, the
\* others keep the name the executor gave them
worker_name(j, names) ==
    IF j <= Len(pool_workers_at_naming) /\ j <= Len(names)
    THEN names[j] ELSE default_worker_name(j)

\* a pool task: __start_observer is called with the observer alone, and a call
\* without `duration` raises TypeError before line 90 is reached; the
\* exception stays in the future, whose result map() is never asked for
start_observer_task(o) == [ obs |-> o, raised |-> "TypeError" ]

\* ObserverManager.start_observers: every name is looked up (line 186) ahead of
\* __start_observers, which opens the pool and submits the tasks
StartObservers(names_, start_method) ==
    /\ spc = "idle"
    /\ LET found == [ k \in 1..Len(names_) |-> get_by_name(names_[k], all_observers_) ]
           args == [ names |-> names_, start_method |-> start_method ]
           opened == start_observers_pool(found, start_method)
       IN  IF \E k \in 1..Len(names_) : found[k] = 0
           THEN /\ call' = Call("start_observers", args, "ServiceNotFound", all_observers_)
                /\ UNCHANGED <<spc, workers>>
           ELSE IF opened # "submitted"
           THEN /\ call' = Call("start_observers", args, opened, all_observers_)
                /\ UNCHANGED <<spc, workers>>
           ELSE /\ call' = Call("start_observers", args, "pending", all_observers_)
                /\ spc' = "pool"
                /\ workers' = pool_map(found)
    /\ UNCHANGED <<gn, logVars, svcVars, all_observers_, services, sidx, remaining, intr>>

\* a worker of the pool runs the task it took from the queue: the worker made
\* for the task or one made for an earlier task that is idle again
WorkerTask(k) ==
    /\ spc = "pool"
    /\ k \in 1..Len(workers)
    /\ workers[k].pc = "queued"
    /\ LET r == start_observer_task(all_observers_[workers[k].obs])
           names == [ i \in 1..Len(workers) |-> all_observers_[workers[i].obs].name ]
       IN  /\ all_observers_' = [ all_observers_ EXCEPT ![workers[k].obs] = r.obs ]
           /\ \E j \in 1..k :
                  workers' = [ workers EXCEPT ![k].pc = "done", ![k].raised = r.raised,
                                              ![k].name = worker_name(j, names) ]
    /\ UNCHANGED <<gn, logVars, svcVars, services, call, spc, sidx, remaining, intr>>

\* the end of the `with` block (lines 122 and 133): shutdown(wait=True) returns
\* when every task has ended, and __start_observers returns None
PoolShutdown ==
    /\ spc = "pool"
    /\ \A k \in 1..Len(workers) : workers[k].pc = "done"
    /\ spc' = "idle"
    /\ workers' = <<>>
    /\ call' = [ call EXCEPT !.outcome = "returned" ]
    /\ UNCHANGED <<gn, logVars, svcVars, all_observers_, services, sidx, remaining, intr>>

Init == InitNames

Next ==
    \/ \E path \in ObsPaths : CreateObserver(path, NoneVal)
    \/ \E name \in AskNames, duration \in 0..MaxDuration : StartObserver(name, duration)
    \/ \E names_ \in SeqsUpTo(AskNames, MaxNames), m \in StartMethods :
           StartObservers(names_, m)
    \/ \E k \in 1..MaxNames : WorkerTask(k)
    \/ PoolShutdown
    \/ EnterTry
    \/ JoinTick
    \/ Interrupt
    \/ ExceptStop
    \/ FinalJoin

Spec == Init /\ [][Next]_vars

---------------------------------------------------------------------------
(* handlers/event_handler.py, handlers/logger/event_logger.py: the change-log. *)

\* event_logger.py, line 68: the keys of a change-log
EventTypes == { "created", "modified", "deleted", "moved", "closed" }

\* the observers whose threads dispatch to the shared handler, by name
LogNames == { <<"l">>, <<"b">> }

\* "/a/x", a directory, and "/a/x/l", a regular file in it
P_a_x == <<"/", "a", "/", "x">>
LogPaths == { P_a_x, P_a_x_l }

\* os.path.isdir on the file system the observers watch
isdir(path) == path = P_a_x

\* a FileSystemEvent
Event(event_type, src_path) == [ event_type |-> event_type, src_path |-> src_path ]

NoEvent == Event("none", NoneVal)

\* the key is in the dict
HasKey(d, k) == \E e \in d : e[1] = k

\* the elements of a list
Range(lst) == { lst[i] : i \in 1..Len(lst) }

\* list(a_set): the elements once each, in the order the set iterates them,
\* which the hash seed of the run decides
list_of_set(S) ==
    { l \in [ 1..Cardinality(S) -> S ] : \A i, j \in 1..Cardinality(S) : i # j => l[i] # l[j] }

\* the content of the file when no write is going on: absent, text that is
\* not JSON, or a JSON object (a dict is the set of its key-value pairs)
FileAbsent == [ kind |-> "absent", data |-> {} ]
FileMalformed == [ kind |-> "malformed", data |-> {} ]
FileJson(data) == [ kind |-> "json", data |-> data ]

read_current_data_uncaught(f) ==
    IF f.kind = "json" THEN [ data |-> f.data, raised |-> "none" ]
    ELSE IF f.kind = "absent" THEN [ data |-> {}, raised |-> "FileNotFoundError" ]
    ELSE [ data |-> {}, raised |-> "JSONDecodeError" ]

\* EventLogger.read_current_data: FileNotFoundError and JSONDecodeError are
\* caught (line 46) and give the empty dict
read_current_data(f) ==
    IF f.kind = "json" THEN [ data |-> f.data, raised |-> "none" ]
    ELSE [ data |-> {}, raised |-> "none" ]

\* analyse_change, lines 67-71: a dict of the five keys, the key of the event
\* then replaced by {name: [src_path]}
fresh_change(event_type, name, src_path) ==
    DictSet({ <<k, {}>> : k \in EventTypes }, event_type, { <<name, <<src_path>>>> })

merge_change_append(data, event_type, name, src_path) ==
    IF ~ HasKey(data, event_type)
    THEN { [ data |-> data, raised |-> "AttributeError" ] }
    ELSE LET key == DictGet(data, event_type)
             changes == IF HasKey(key, name) THEN DictGet(key, name) ELSE <<>>
         IN  { [ data |-> DictSet(data, event_type, DictSet(key, name, Append(changes, src_path))),
                 raised |-> "none" ] }

merge_change_alone(data, event_type, name, src_path) ==
    IF ~ HasKey(data, event_type)
    THEN { [ data |-> data, raised |-> "AttributeError" ] }
    ELSE LET key == DictGet(data, event_type)
             changes == IF HasKey(key, name) THEN Range(DictGet(key, name)) ELSE {}
         IN  { [ data |-> DictSet(data, event_type, { <<name, l>> }), raised |-> "none" ] :
                 l \in list_of_set(changes \cup { src_path }) }

\* analyse_change, lines 56-64: data.get(event_type) is None for a missing key
\* and line 57 then raises AttributeError; otherwise the paths logged under
\* [event_type][name] become a set, take src_path, and go back as a list
merge_change(data, event_type, name, src_path) ==
    IF ~ HasKey(data, event_type)
    THEN { [ data |-> data, raised |-> "AttributeError" ] }
    ELSE LET key == DictGet(data, event_type)
             changes == IF HasKey(key, name) THEN Range(DictGet(key, name)) ELSE {}
         IN  { [ data |-> DictSet(data, event_type, DictSet(key, name, l)), raised |-> "none" ] :
                 l \in list_of_set(changes \cup { src_path }) }

analyse_change_one_name(data, event, name) ==
    IF data # {}
    THEN merge_change(data, event.event_type, <<"l">>, event.src_path)
    ELSE { [ data |-> fresh_change(event.event_type, <<"l">>, event.src_path), raised |-> "none" ] }

\* EventLogger.analyse_change on the data read_current_data returned: the
\* dicts it may return, one for each order of the rebuilt list
analyse_change(data, event, name) ==
    IF data # {}
    THEN merge_change(data, event.event_type, name, event.src_path)
    ELSE { [ data |-> fresh_change(event.event_type, name, event.src_path), raised |-> "none" ] }

on_modified_unguarded(event) == "write_change"

\* EventHandler.on_modified: nothing is logged for a directory
on_modified(event) == IF isdir(event.src_path) THEN "return" ELSE "write_change"

\* on_closed, on_created, on_deleted, on_moved
on_other(event) == "write_change"

\* EventHandler.dispatch: on_any_event prints and changes nothing, then the
\* handler of the event type runs
dispatch(event) ==
    CASE event.event_type = "created" -> on_other(event)
      [] event.event_type = "deleted" -> on_other(event)
      [] event.event_type = "modified" -> on_modified(event)
      [] event.event_type = "moved" -> on_other(event)
      [] event.event_type = "closed" -> on_other(event)

\* an observer thread outside dispatch
WkIdle ==
    [ pc |-> "idle", event |-> NoEvent, found |-> FileAbsent, change |-> {},
      raised |-> "none", wrote |-> FALSE ]

\* the thread of observer w calls handler.dispatch(event, w); disp.overlap
\* tells whether a write_change ever began while another was going on (a
\* history, not a variable of the code)
Dispatch(w, event) ==
    /\ wk[w].pc = "idle"
    /\ disp.n < MaxDispatch
    /\ disp' = [ n |-> disp.n + 1,
                 seen |-> disp.seen \cup { <<event.event_type, w, event.src_path>> },
                 overlap |-> \/ disp.overlap
                             \/ /\ dispatch(event) = "write_change"
                                /\ \E v \in LogNames \ { w } : wk[v].pc # "idle" ]
    /\ wk' = [ wk EXCEPT ![w] =
                 IF dispatch(event) = "write_change"
                 THEN [ WkIdle EXCEPT !.pc = "read", !.event = event ]
                 ELSE [ WkIdle EXCEPT !.event = event ] ]
    /\ UNCHANGED <<obsVars, svcVars, file_>>

\* write_change, line 77: analyse_change reads the file and builds the dict
ReadCurrentData(w) ==
    /\ wk[w].pc = "read"
    /\ LET r == read_current_data(file_)
       IN  IF r.raised # "none"
           THEN wk' = [ wk EXCEPT ![w].pc = "idle", ![w].found = file_, ![w].raised = r.raised ]
           ELSE \E c \in analyse_change(r.data, wk[w].event, w) :
                    wk' = [ wk EXCEPT ![w].pc = IF c.raised = "none" THEN "open" ELSE "idle",
                                      ![w].found = file_,
                                      ![w].change = c.data,
                                      ![w].raised = c.raised ]
    /\ UNCHANGED <<obsVars, svcVars, file_, disp>>

\* write_change, line 78: open(self.file_, "w") leaves an empty file
OpenWrite(w) ==
    /\ wk[w].pc = "open"
    /\ file_' = FileMalformed
    /\ wk' = [ wk EXCEPT ![w].pc = "dump" ]
    /\ UNCHANGED <<obsVars, svcVars, disp>>

\* write_change, line 79: json.dump fills the buffer and the end of the `with`
\* block writes it out
Dump(w) ==
    /\ wk[w].pc = "dump"
    /\ file_' = FileJson(wk[w].change)
    /\ wk' = [ wk EXCEPT ![w].pc = "idle", ![w].wrote = TRUE ]
    /\ UNCHANGED <<obsVars, svcVars, disp>>

\* the handler starts with no change-log or with one a broken run left behind
InitLogFile ==
    /\ gn = gn_idle
    /\ InitReg
    /\ InitSvc
    /\ file_ \in { FileAbsent, FileMalformed }
    /\ wk = [ w \in LogNames |-> WkIdle ]
    /\ disp = [ n |-> 0, seen |-> {}, overlap |-> FALSE ]

NextLog ==
    \/ \E w \in LogNames, t \in EventTypes, path \in LogPaths : Dispatch(w, Event(t, path))
    \/ \E w \in LogNames : ReadCurrentData(w)
    \/ \E w \in LogNames : OpenWrite(w)
    \/ \E w \in LogNames : Dump(w)

SpecLog == InitLogFile /\ [][NextLog]_vars

---------------------------------------------------------------------------
(* managers/service_manager.py, services/watchdog_service.py: services. *)

\* the text the file names and command lines are made of
S_service == <<"_", "s", "e", "r", "v", "i", "c", "e">>
S_true == <<"_", "t", "r", "u", "e">>
S_py == <<".", "p", "y">>
S_wds == <<".", "w", "d", "s">>
S_python3_u == <<"p", "y", "t", "h", "o", "n", "3", " ", "-", "u", " ">>
S_curdir == <<".">>
S_watchservice == <<"_", "_", "w", "a", "t", "c", "h", "s", "e", "r", "v", "i", "c", "e", "_", "_">>
S_autostart_desktop ==
    <<"_", "a", "u", "t", "o", "s", "t", "a", "r", "t", ".", "d", "e", "s", "k", "t", "o", "p">>
\* f"{os.environ['HOME']}/.config/autostart", the home directory written "~"
S_system_autostart_dir ==
    <<"~", "/", ".", "c", "o", "n", "f", "i", "g", "/", "a", "u", "t", "o", "s", "t", "a", "r", "t">>

\* "/a/S": a path whose last segment has a capital
P_a_S == <<"/", "a", "/", "S">>

\* str.lower on the letters the names are made of
lower(str) ==
    [ i \in 1..Len(str) |-> IF str[i] = "S" THEN "s" ELSE IF str[i] = "T" THEN "t" ELSE str[i] ]

\* os.path.join of a directory and a file name
path_join(dir, name) == IF dir # <<>> /\ dir[Len(dir)] = SLASH THEN dir \o name ELSE dir \o <<SLASH>> \o name

\* pattern in line
contains(line, pattern) ==
    \E k \in 0..(Len(line) - Len(pattern)) : SubSeq(line, k + 1, k + Len(pattern)) = pattern

\* the paths services are made for
SvcPaths == { P_a_S }
DefinePaths == { P_a_S, P_a_l }

\* the WatchdogService objects the caller makes: a named and an unnamed service,
\* with and without run_on_startup, in the working directory and in "v"
SvcConfigs ==
    { [ name |-> NoneVal, run_on_startup |-> FALSE, dir |-> NoneVal ],
      [ name |-> NoneVal, run_on_startup |-> TRUE, dir |-> <<"v">> ],
      [ name |-> <<"t">>, run_on_startup |-> TRUE, dir |-> NoneVal ],
      [ name |-> <<"t">>, run_on_startup |-> FALSE, dir |-> <<"v">> ] }

\* signal.SIGKILL and signal.SIGTERM
SIGKILL == 9
SIGTERM == 15
Signals == { SIGKILL, SIGTERM }

\* the process id of the k-th process spawned
PidBase == 100
pid_of(k) == PidBase + k

\* __create_service, line 174: the name of the service
create_service_name(path, name) ==
    IF name = NoneVal \/ name = <<>> THEN lower(generate_name(path)) ELSE name

\* __create_service, lines 176-177: the file the instructions are written to
create_service_file(path, name, run_on_startup) ==
    path_join(S_watchservice,
              create_service_name(path, name)
                  \o (IF run_on_startup THEN <<"_">> \o S_true ELSE <<>>) \o S_wds)

\* a file a define or a schedule wrote; name and run_on_startup are those of
\* the service it was written for (a history: the disk has the file name only)
DiskFile(file, name, run_on_startup) ==
    [ file |-> file, name |-> name, run_on_startup |-> run_on_startup ]

\* ServiceManager.create_service: __create_service writes the file, then line
\* 236 reads `service_file`, a name bound nowhere in create_service, and raises
\* NameError ahead of __get_autostart and of line 237
CreateService(path, name, run_on_startup) ==
    /\ spc = "idle"
    /\ disk' = disk \cup { DiskFile(create_service_file(path, name, run_on_startup),
                                    create_service_name(path, name), run_on_startup) }
    /\ call' = Call("create_service",
                    [ path |-> path, name |-> name, run_on_startup |-> run_on_startup ],
                    "NameError", services)
    /\ UNCHANGED <<gn, all_observers_, services, spc, sidx, remaining, intr, workers,
                   logVars, procs, kills, wsvc>>

\* the dataclass WatchDogService(name, service_file, run_on_startup, autostart)
\* built as line 220 builds it, without `autostart`
WatchDogService_init(name, service_file, run_on_startup) == "TypeError"

\* glob.glob(os.path.join(self.service_dir, '*.wds'))
glob_wds(files) ==
    { f \in files : /\ endswith(f.file, S_wds)
                    /\ Len(f.file) > Len(S_watchservice)
                    /\ SubSeq(f.file, 1, Len(S_watchservice) + 1) = S_watchservice \o <<SLASH>> }

\* ServiceManager.init_services: the first file found ends the loop with the
\* TypeError of line 220, so lines 221-225 never run; with no file the loop is
\* skipped and line 228 raises NoServicesFound
init_services(self, files) ==
    IF glob_wds(files) = {}
    THEN [ list |-> self, raised |-> "NoServicesFound" ]
    ELSE LET f == CHOOSE f \in glob_wds(files) : TRUE
         IN  [ list |-> self,
               raised |-> WatchDogService_init(removesuffix(f.file, S_wds), f.file, FALSE) ]

\* a manager made after the files were written runs init_services
InitServices ==
    /\ spc = "idle"
    /\ LET r == init_services(<<>>, disk)
       IN  /\ services' = r.list
           /\ call' = Call("init_services", <<>>, r.raised, <<>>)
    /\ UNCHANGED <<gn, all_observers_, spc, sidx, remaining, intr, workers,
                   logVars, disk, procs, kills, wsvc>>

\* WatchdogService.__init__
WatchdogService(path, name, run_on_startup, service_dir) ==
    [ path |-> path, _name |-> name, run_on_startup |-> run_on_startup,
      _service_dir |-> service_dir, is_active |-> FALSE ]

\* ServiceName.__get__: _name, or the last segment of path when it is empty
service_name(self) ==
    IF self._name # NoneVal /\ self._name # <<>> THEN self._name ELSE generate_name(self.path)

\* WatchdogService.service_dir
service_dir(self) ==
    IF self._service_dir # NoneVal /\ self._service_dir # <<>> THEN self._service_dir ELSE S_curdir

\* WatchdogService.service_file; shlex.quote leaves a name of letters as it is
service_file(self) ==
    path_join(service_dir(self),
              lower(service_name(self)) \o S_service
                  \o (IF self.run_on_startup THEN S_true ELSE <<>>) \o S_py)

\* the command line of the process __get_launch_command starts: nohup runs
\* python3 -u <service file> with the output redirected by the shell
launch_cmdline(self) == S_python3_u \o service_file(self)

\* __get_pid, line 268
get_pid_pattern(self) == S_python3_u \o <<".", SLASH>> \o lower(service_name(self)) \o S_service

\* __get_pid: the pid on the first line of `ps` that has the pattern; 0 stands
\* for the ServicePIDNotFound it raises when no line has it
get_pid(self, table) ==
    LET hits == { k \in 1..Len(table) :
                    table[k].alive /\ contains(table[k].cmd, get_pid_pattern(self)) }
    IN  IF hits = {} THEN 0 ELSE pid_of(CHOOSE k \in hits : \A j \in hits : k <= j)

\* the caller makes a WatchdogService
NewService(path, name, run_on_startup, dir) ==
    /\ spc = "idle"
    /\ Len(wsvc) < MaxServices
    /\ wsvc' = Append(wsvc, WatchdogService(path, name, run_on_startup, dir))
    /\ call' = Call("WatchdogService", [ name |-> name ], "returned", <<>>)
    /\ UNCHANGED <<gn, all_observers_, services, spc, sidx, remaining, intr, workers,
                   logVars, disk, procs, kills>>

\* WatchdogService.autostart_file, of a service with run_on_startup
autostart_file(self) ==
    path_join(service_dir(self), lower(service_name(self)) \o S_autostart_desktop)

\* __copy_to_system: shutil.copy puts the autostart file into the autostart
\* directory of the user
system_autostart_file(self) ==
    path_join(S_system_autostart_dir, lower(service_name(self)) \o S_autostart_desktop)

\* __schedule, lines 298-303: the files the call leaves on the disk.  With
\* run_on_startup the autostart file is written first and copied to the
\* autostart directory of the user; where that directory is missing the copy
\* raises FileNotFoundError and the service file is not written
schedule(self, has_autostart_dir) ==
    LET file(f) == DiskFile(f, service_name(self), self.run_on_startup)
    IN  IF ~ self.run_on_startup
        THEN [ files |-> { file(service_file(self)) }, raised |-> "none" ]
        ELSE IF has_autostart_dir
        THEN [ files |-> { file(autostart_file(self)), file(system_autostart_file(self)),
                           file(service_file(self)) },
               raised |-> "none" ]
        ELSE [ files |-> { file(autostart_file(self)) }, raised |-> "FileNotFoundError" ]

\* WatchdogService.schedule
Schedule(i) ==
    /\ spc = "idle"
    /\ i \in 1..Len(wsvc)
    /\ \E has_autostart_dir \in BOOLEAN :
           LET r == schedule(wsvc[i], has_autostart_dir)
           IN  /\ disk' = disk \cup r.files
               /\ call' = Call("schedule", [ service |-> i ],
                               IF r.raised = "none" THEN "returned" ELSE r.raised, <<>>)
    /\ UNCHANGED <<gn, all_observers_, services, spc, sidx, remaining, intr, workers,
                   logVars, procs, kills, wsvc>>

\* WatchdogService.start: os.system runs the launch command, which leaves a
\* python3 process behind when the service file exists, and is_active is set
Start(i) ==
    /\ spc = "idle"
    /\ i \in 1..Len(wsvc)
    /\ Len(procs) < MaxProcs
    /\ procs' = IF \E f \in disk : f.file = service_file(wsvc[i])
                THEN Append(procs, [ cmd |-> launch_cmdline(wsvc[i]), alive |-> TRUE, owner |-> i ])
                ELSE procs
    /\ wsvc' = [ wsvc EXCEPT ![i].is_active = TRUE ]
    /\ call' = Call("start", [ service |-> i ], "returned", <<>>)
    /\ UNCHANGED <<gn, all_observers_, services, spc, sidx, remaining, intr, workers,
                   logVars, disk, kills>>

\* a service process ends by itself
ProcessExit(k) ==
    /\ k \in 1..Len(procs)
    /\ procs[k].alive
    /\ procs' = [ procs EXCEPT ![k].alive = FALSE ]
    /\ UNCHANGED <<gn, all_observers_, services, call, spc, sidx, remaining, intr, workers,
                   logVars, disk, kills, wsvc>>

\* the `pid` attribute of a WatchdogService, which calls __get_pid
GetPid(i) ==
    /\ spc = "idle"
    /\ i \in 1..Len(wsvc)
    /\ LET pid == get_pid(wsvc[i], procs)
       IN  call' = Call("pid", [ service |-> i, pid |-> pid ],
                        IF pid = 0 THEN "ServicePIDNotFound" ELSE "returned", procs)
    /\ UNCHANGED <<gn, all_observers_, services, spc, sidx, remaining, intr, workers,
                   logVars, svcVars>>

startswith(str, prefix) == Len(prefix) <= Len(str) /\ SubSeq(str, 1, Len(prefix)) = prefix

\* from_service_file, line 309: glob.glob(f"{name}_service_*.py"), which looks
\* in the working directory and wants a second underscore after `service`
glob_service(files, name) ==
    { f \in files : /\ startswith(f.file, path_join(S_curdir, name \o S_service \o <<"_">>))
                    /\ endswith(f.file, S_py) }

\* WatchdogService.from_service_file: with no file found it raises
\* ServiceReloadError; with one, line 315 imports "<file>.py" as a module,
\* which runs the service file (its start_observer never returns) when the
\* working directory is on sys.path and raises ModuleNotFoundError in any case
FromServiceFile(name) ==
    /\ spc = "idle"
    /\ IF glob_service(disk, name) = {}
       THEN /\ call' = Call("from_service_file", [ name |-> name ], "ServiceReloadError", <<>>)
            /\ UNCHANGED spc
       ELSE \/ /\ call' = Call("from_service_file", [ name |-> name ], "ModuleNotFoundError", <<>>)
               /\ UNCHANGED spc
            \/ /\ call' = Call("from_service_file", [ name |-> name ], "pending", <<>>)
               /\ spc' = "diverged"
    /\ UNCHANGED <<gn, all_observers_, services, sidx, remaining, intr, workers,
                   logVars, svcVars>>

\* os.kill(pid, sig): the signal reaches the live process of that pid, which
\* SIGKILL and SIGTERM end; with no such process it raises ProcessLookupError
os_kill(table, pid, sig) ==
    LET k == pid - PidBase
    IN  IF k \in 1..Len(table) /\ table[k].alive
        THEN [ table |-> [ table EXCEPT ![k].alive = FALSE ],
               sent |-> << [ pid |-> pid, sig |-> sig ] >>, raised |-> "none" ]
        ELSE [ table |-> table, sent |-> <<>>, raised |-> "ProcessLookupError" ]

\* WatchdogService.send_signal on a process table: os.kill(self.pid, signal),
\* where reading self.pid runs __get_pid and may raise ServicePIDNotFound ahead
\* of os.kill; is_active is not touched
service_send_signal(self, table, signal) ==
    LET pid == get_pid(self, table)
        r == os_kill(table, pid, signal)
    IN  IF pid = 0
        THEN [ table |-> table, sent |-> <<>>, raised |-> "ServicePIDNotFound",
               is_active |-> self.is_active ]
        ELSE [ table |-> r.table, sent |-> r.sent, raised |-> r.raised,
               is_active |-> self.is_active ]

\* WatchdogService.send_signal
ServiceSendSignal(i, sig) ==
    /\ spc = "idle"
    /\ i \in 1..Len(wsvc)
    /\ Len(kills) < MaxKills
    /\ LET r == service_send_signal(wsvc[i], procs, sig)
           args == [ service |-> i, sig |-> sig, delivered |-> r.sent ]
       IN  /\ call' = Call("service.send_signal", args,
                           IF r.raised = "none" THEN "returned" ELSE r.raised, procs)
           /\ procs' = r.table
           /\ kills' = kills \o r.sent
    /\ UNCHANGED <<gn, all_observers_, services, spc, sidx, remaining, intr, workers,
                   logVars, disk, wsvc>>

service_stop_unguarded(self, table) ==
    LET r == service_send_signal(self, table, SIGKILL)
    IN  [ r EXCEPT !.is_active = FALSE ]

\* WatchdogService.stop on a process table: an inactive service raises
\* ServiceNotRunning with nothing sent; an active one sends SIGKILL, and line
\* 371 clears is_active when send_signal has returned
service_stop(self, table) ==
    IF self.is_active
    THEN LET r == service_send_signal(self, table, SIGKILL)
         IN  [ r EXCEPT !.is_active = (r.raised # "none") ]
    ELSE [ table |-> table, sent |-> <<>>, raised |-> "ServiceNotRunning",
           is_active |-> FALSE ]

\* WatchdogService.stop; was_active is the flag the call found (a history)
Stop(i) ==
    /\ spc = "idle"
    /\ i \in 1..Len(wsvc)
    /\ LET r == service_stop(wsvc[i], procs)
           args == [ service |-> i, sig |-> SIGKILL, delivered |-> r.sent,
                     was_active |-> wsvc[i].is_active ]
       IN  /\ Len(kills) + Len(r.sent) <= MaxKills
           /\ call' = Call("stop", args,
                           IF r.raised = "none" THEN "returned" ELSE r.raised, procs)
           /\ procs' = r.table
           /\ kills' = kills \o r.sent
           /\ wsvc' = [ wsvc EXCEPT ![i].is_active = r.is_active ]
    /\ UNCHANGED <<gn, all_observers_, services, spc, sidx, remaining, intr, workers,
                   logVars, disk>>

\* ServiceManager.__get_service_pid: shlex.join takes one list, and line 127
\* gives it five strings, so it raises TypeError before `ps` is run
get_service_pid(name, table) == [ pid |-> 0, raised |-> "TypeError" ]

\* ServiceManager.__send_signal(pid, sig)
send_signal_to(table, pid, sig) == os_kill(table, pid, sig)

\* ServiceManager.send_signal on a process table: line 250 calls
\* __send_signal(sig, pid), the signal in the place of the pid
send_signal(name, table, sig) ==
    LET p == get_service_pid(name, table)
        r == send_signal_to(table, sig, p.pid)
    IN  IF p.raised # "none"
        THEN [ table |-> table, sent |-> <<>>, raised |-> p.raised ]
        ELSE [ table |-> r.table, sent |-> r.sent, raised |-> r.raised ]

\* ServiceManager.send_signal
ManagerSendSignal(name, sig) ==
    /\ spc = "idle"
    /\ Len(kills) < MaxKills
    /\ LET r == send_signal(name, procs, sig)
           args == [ name |-> name, sig |-> sig, delivered |-> r.sent ]
       IN  /\ call' = Call("send_signal", args,
                           IF r.raised = "none" THEN "returned" ELSE r.raised, procs)
           /\ procs' = r.table
           /\ kills' = kills \o r.sent
    /\ UNCHANGED <<gn, all_observers_, services, spc, sidx, remaining, intr, workers,
                   logVars, disk, wsvc>>

\* ServiceManager.stop_service on a process table: __get_service_pid, then
\* __send_signal(pid, signal.SIGKILL)
stop_service(name, table) ==
    LET p == get_service_pid(name, table)
        r == send_signal_to(table, p.pid, SIGKILL)
    IN  IF p.raised # "none"
        THEN [ table |-> table, sent |-> <<>>, raised |-> p.raised ]
        ELSE [ table |-> r.table, sent |-> r.sent, raised |-> r.raised ]

\* ServiceManager.stop_service
StopService(name) ==
    /\ spc = "idle"
    /\ LET r == stop_service(name, procs)
           args == [ name |-> name, sig |-> SIGKILL, delivered |-> r.sent ]
       IN  /\ Len(kills) + Len(r.sent) <= MaxKills
           /\ call' = Call("stop_service", args,
                           IF r.raised = "none" THEN "returned" ELSE r.raised, procs)
           /\ procs' = r.table
           /\ kills' = kills \o r.sent
    /\ UNCHANGED <<gn, all_observers_, services, spc, sidx, remaining, intr, workers,
                   logVars, disk, wsvc>>

\* ServiceManager.get_by_name: __init__ (line 81) binds it to
\* partial(self.get_by_name, collections=self.services), and Manager.get_by_name
\* has no parameter `collections`, so every call raises TypeError
ServiceManager_get_by_name(name, collection) == [ idx |-> 0, raised |-> "TypeError" ]

\* ServiceManager.__launch_service: for run_on_startup line 196 assigns to a
\* field of the Autostart namedtuple, which raises AttributeError ahead of
\* __write_autostart and of os.system; otherwise os.system runs the command
launch_service_private(service) ==
    IF service.run_on_startup THEN "AttributeError" ELSE "none"

\* ServiceManager.launch_service
LaunchService(name) ==
    /\ spc = "idle"
    /\ LET g == ServiceManager_get_by_name(name, services)
           raised == IF g.raised # "none" THEN g.raised
                     ELSE launch_service_private(services[g.idx])
       IN  /\ call' = Call("launch_service", [ name |-> name ],
                           IF raised = "none" THEN "returned" ELSE raised, services)
           /\ procs' = IF raised = "none" /\ Len(procs) < MaxProcs
                       THEN Append(procs, [ cmd |-> S_python3_u \o path_join(S_watchservice, name \o S_wds),
                                            alive |-> TRUE, owner |-> 0 ])
                       ELSE procs
    /\ UNCHANGED <<gn, all_observers_, services, spc, sidx, remaining, intr, workers,
                   logVars, disk, kills, wsvc>>

\* the names services are asked for by
SvcLookupNames == { <<"s">>, <<"t">> }

\* ServiceManager: services are defined and found again
NextDefine ==
    \/ \E path \in DefinePaths, name \in SvcLookupNames \cup { NoneVal }, r \in BOOLEAN :
           CreateService(path, name, r)
    \/ InitServices
    \/ \E n \in SvcNames, r \in BOOLEAN : AppendService([ name |-> n, run_on_startup |-> r ])
    \/ \E name \in SvcLookupNames : LaunchService(name)

SpecDefine == InitNames /\ [][NextDefine]_vars

\* WatchdogService objects, their processes and the signals sent to them
NextService ==
    \/ \E path \in SvcPaths, c \in SvcConfigs :
           NewService(path, c.name, c.run_on_startup, c.dir)
    \/ \E i \in 1..MaxServices : Schedule(i)
    \/ \E i \in 1..MaxServices : Start(i)
    \/ \E k \in 1..MaxProcs : ProcessExit(k)
    \/ \E i \in 1..MaxServices : GetPid(i)
    \/ \E name \in SvcLookupNames : FromServiceFile(name)
    \/ \E i \in 1..MaxServices, sig \in Signals : ServiceSendSignal(i, sig)
    \/ \E name \in SvcLookupNames, sig \in Signals : ManagerSendSignal(name, sig)
    \/ \E i \in 1..MaxServices : Stop(i)
    \/ \E name \in SvcLookupNames : StopService(name)

SpecService == InitNames /\ [][NextService]_vars

\* the service stop is tried on, kept in the working directory; the caller may
\* hold several descriptors of it
StopConfigs ==
    { [ name |-> NoneVal, run_on_startup |-> FALSE, dir |-> NoneVal ] }

\* WatchdogService objects started, stopped and killed
NextStop ==
    \/ \E path \in SvcPaths, c \in StopConfigs :
           NewService(path, c.name, c.run_on_startup, c.dir)
    \/ \E i \in 1..MaxServices : Schedule(i)
    \/ \E i \in 1..MaxServices : Start(i)
    \/ \E k \in 1..MaxProcs : ProcessExit(k)
    \/ \E i \in 1..MaxServices : Stop(i)
    \/ \E i \in 1..MaxServices : ServiceSendSignal(i, SIGKILL)

SpecStop == InitNames /\ [][NextStop]_vars

\* services of distinct names kept in the working directory: "S" (the last
\* segment of the path), "s", which differs from it in case alone, and
\* "s_service", of which "s" is a prefix
PairConfigs ==
    { [ name |-> NoneVal, run_on_startup |-> FALSE, dir |-> NoneVal ],
      [ name |-> <<"s">>, run_on_startup |-> FALSE, dir |-> NoneVal ],
      [ name |-> <<"s">> \o S_service, run_on_startup |-> FALSE, dir |-> NoneVal ] }

\* two services run side by side and are asked for their pids, signalled and
\* stopped
NextPair ==
    \/ \E path \in SvcPaths, c \in PairConfigs :
           NewService(path, c.name, c.run_on_startup, c.dir)
    \/ \E i \in 1..MaxServices : Schedule(i)
    \/ \E i \in 1..MaxServices : Start(i)
    \/ \E k \in 1..MaxProcs : ProcessExit(k)
    \/ \E i \in 1..MaxServices : GetPid(i)
    \/ \E i \in 1..MaxServices : Stop(i)
    \/ \E i \in 1..MaxServices, sig \in Signals : ServiceSendSignal(i, sig)

SpecPair == InitNames /\ [][NextPair]_vars

---------------------------------------------------------------------------
(* Claims about generate_names, checked under SpecNames. *)

\* the for loop has run to completion: gn.names is the list line 32 returns
LoopDone == gn.pc \in { "write_positions", "raised", "returned" }

\* p without its leading and trailing separators, stated by positions
Trimmed(p) ==
    LET inner == { i \in 1..Len(p) : p[i] # SLASH }
    IN  IF inner = {} THEN <<>>
        ELSE SubSeq(p, CHOOSE i \in inner : \A j \in inner : i <= j,
                       CHOOSE i \in inner : \A j \in inner : i >= j)

\* what follows the last separator of the trimmed path
TerminalSegment(p) ==
    LET t == Trimmed(p)
        seps == { i \in 1..Len(t) : t[i] = SLASH }
        last == IF seps = {} THEN 0 ELSE CHOOSE i \in seps : \A j \in seps : i >= j
    IN  SubSeq(t, last + 1, Len(t))

\* p and the directories above it
Ancestors(p) == { p } \cup { SubSeq(p, 1, k - 1) : k \in { i \in 1..Len(p) : p[i] = SLASH } }

\* n names p or a directory above p
DerivedFrom(n, p) == \E q \in Ancestors(p) : n = TerminalSegment(q)

\* C1: when generate_names has built its list for every path of the input,
\* the list is as long as the input, its i-th name is the terminal segment of
\* the i-th path or of a directory above it, and no name occurs twice.
C1_NamesPerPathDistinct ==
    LoopDone =>
        /\ Len(gn.names) = Len(gn.paths)
        /\ \A i \in 1..Len(gn.names) : DerivedFrom(gn.names[i], gn.paths[i])
        /\ \A i, j \in 1..Len(gn.names) : i # j => gn.names[i] # gn.names[j]

\* three paths were named and two of them needed shortening
C1_Witness ==
    /\ LoopDone
    /\ Len(gn.names) = 3
    /\ Cardinality({ i \in 1..3 : gn.trail[i] # <<>> }) = 2

\* an absolute path with no trailing separator and no empty segment
Plain(p) ==
    /\ Len(p) >= 2
    /\ p[1] = SLASH
    /\ p[Len(p)] # SLASH
    /\ \A i \in 1..(Len(p) - 1) : ~ (p[i] = SLASH /\ p[i + 1] = SLASH)

\* every path of the call is plain and no path was shortened to nothing
PlainCall(f) ==
    /\ \A i \in 1..Len(f.paths) : Plain(f.paths[i])
    /\ \A i \in 1..Len(f.names) : f.names[i] # <<>>

\* C2: for every path given to generate_names, the segment of the path at the
\* recorded position of its name is the name (the test of
\* changes_manager.get_by_name, line 55).
C2_PositionRoundTrip ==
    (LoopDone /\ PlainCall(gn)) =>
        \A i \in 1..Len(gn.names) :
            negindex(split(strip(gn.paths[i])),
                     DictGet(gn.position_data, gn.names[i])) = gn.names[i]

\* C3: the position recorded for a name is -1 minus the shortening steps
\* taken for its own path; a path that collided with nothing is recorded -1.
C3_PositionCountsOwnSteps ==
    (LoopDone /\ PlainCall(gn)) =>
        \A i \in 1..Len(gn.names) :
            DictGet(gn.position_data, gn.names[i]) = -1 - Len(gn.trail[i])

\* the path being named has a segment that is not yet a name
HasUnusedSegment(f) ==
    LET parts == split(strip(f.paths[f.idx]))
    IN  \E k \in 1..Len(parts) : ~ InSeq(parts[k], f.names)

\* C4: on a path that still has an unused segment the shortening loop ends:
\* it never comes back to a candidate it has already rejected for this path
\* (the loop's next candidate is a function of the path and the candidate, and
\* names does not change inside it, so a candidate met twice is met for ever).
C4_ShorteningTerminates ==
    (gn.pc = "while" /\ PlainCall(gn) /\ HasUnusedSegment(gn)) => ~ InSeq(gn.name, gn.trail[gn.idx])

\* C24: in generate_names the first path of the input with a given terminal
\* segment is named by that segment, and a later path with the same terminal
\* segment is named by a directory above it.
C24_FirstKeepsTerminalName ==
    (LoopDone /\ PlainCall(gn)) =>
        \A i \in 1..Len(gn.names) :
            IF \A j \in 1..(i - 1) : TerminalSegment(gn.paths[j]) # TerminalSegment(gn.paths[i])
            THEN gn.names[i] = TerminalSegment(gn.paths[i])
            ELSE /\ gn.names[i] # TerminalSegment(gn.paths[i])
                 /\ DerivedFrom(gn.names[i], gn.paths[i])

---------------------------------------------------------------------------
(* Claims about the registries, checked under SpecRegistry. *)

NamesUnique(collection) ==
    \A i, j \in 1..Len(collection) : i # j => collection[i].name # collection[j].name

\* C5: whatever create and append calls were made, and whether they succeeded
\* or failed, no two entries of the observer registry and no two entries of
\* the service registry have the same name.
C5_RegistryNamesUnique == NamesUnique(all_observers_) /\ NamesUnique(services)

\* both registries are populated and the last append was refused
C5_Witness ==
    /\ Len(all_observers_) >= 2
    /\ Len(services) >= 2
    /\ call.outcome \in { "AlreadyExists", "NameError" }

\* the name create_observer(path, name) appends under
AppendedName(args) ==
    IF args.name # NoneVal /\ args.name # <<>> THEN args.name ELSE TerminalSegment(args.path)

\* C6: an append under a name the registry already holds fails with
\* AlreadyExists and leaves the registry as it was, entry for entry; any other
\* append puts the new entry last and leaves the earlier entries in place.
C6_AppendAllOrNothing ==
    call.op = "create_observer" =>
        IF HasName(call.before, AppendedName(call.args))
        THEN /\ call.outcome = "AlreadyExists"
             /\ all_observers_ = call.before
        ELSE /\ call.outcome = "returned"
             /\ Len(all_observers_) = Len(call.before) + 1
             /\ SubSeq(all_observers_, 1, Len(call.before)) = call.before
             /\ all_observers_[Len(all_observers_)].name = AppendedName(call.args)

\* an append was refused by a registry of two entries
C6_Witness ==
    /\ call.op = "create_observer"
    /\ call.outcome = "AlreadyExists"
    /\ Len(all_observers_) = 2
    /\ call.args.name = <<"w">>

\* C7: create_observer(path) without a name registers an observer for path
\* under the last segment of path; when that name is taken the call fails with
\* AlreadyExists itself and the observer that holds the name stays registered.
C7_CreateDefaultName ==
    (call.op = "create_observer" /\ call.args.name = NoneVal) =>
        LET n == TerminalSegment(call.args.path)
            k == Len(all_observers_)
        IN  IF HasName(call.before, n)
            THEN /\ call.outcome = "AlreadyExists"
                 /\ \E i \in 1..k :
                        /\ all_observers_[i].name = n
                        /\ i <= Len(call.before)
                        /\ all_observers_[i] = call.before[i]
            ELSE /\ call.outcome = "returned"
                 /\ all_observers_[k].name = n
                 /\ all_observers_[k].path = call.args.path
                 /\ all_observers_[k].state = "Created"

\* a second path with the terminal segment of a registered one was refused
C7_Witness ==
    /\ call.op = "create_observer"
    /\ call.args.name = NoneVal
    /\ call.outcome = "AlreadyExists"
    /\ \E i \in 1..Len(all_observers_) :
           /\ all_observers_[i].name = TerminalSegment(call.args.path)
           /\ all_observers_[i].path # call.args.path

\* C8: when create_observers(paths) is over, the registry holds one new
\* observer per path, in the order of paths, and all names are distinct.
C8_CreateManyRegistersAll ==
    (call.op = "create_observers" /\ call.outcome # "pending") =>
        /\ Len(all_observers_) = Len(call.before) + Len(call.args.paths)
        /\ SubSeq(all_observers_, 1, Len(call.before)) = call.before
        /\ \A i \in 1..Len(call.args.paths) :
               /\ Len(call.before) + i <= Len(all_observers_)
               /\ all_observers_[Len(call.before) + i].path = call.args.paths[i]
        /\ NamesUnique(all_observers_)

\* C25: when create_observers(paths, names) with a name supplied for every
\* path is over, the registry has one new observer per path, the i-th of them
\* for the i-th path under the i-th supplied name.
C25_CreateManySuppliedNames ==
    ( /\ call.op = "create_observers"
      /\ call.args.names # NoNames
      /\ call.args.paths # <<>>
      /\ call.outcome # "pending" ) =>
        /\ Len(all_observers_) = Len(call.before) + Len(call.args.paths)
        /\ \A i \in 1..Len(call.args.paths) :
               /\ Len(call.before) + i <= Len(all_observers_)
               /\ all_observers_[Len(call.before) + i].path = call.args.paths[i]
               /\ all_observers_[Len(call.before) + i].name = call.args.names[i]

---------------------------------------------------------------------------
(* Claims about starting observers, checked under Spec. *)

\* C9: a lookup finds the entry of the requested name and raises
\* ServiceNotFound exactly when there is none; start_observer and
\* start_observers look every name up first, so a call that names an
\* unregistered observer ends in ServiceNotFound with every observer in the
\* state it had.
C9_LookupBeforeStart ==
    /\ (call.op = "start_observer") =>
           /\ (call.outcome = "ServiceNotFound") <=> ~ HasName(call.before, call.args.name)
           /\ (call.outcome = "ServiceNotFound") => (all_observers_ = call.before /\ spc = "idle")
           /\ (call.outcome = "pending") =>
                  /\ all_observers_[sidx].name = call.args.name
                  /\ \A i \in 1..Len(all_observers_) :
                         i # sidx => all_observers_[i] = call.before[i]
    /\ (call.op = "start_observers") =>
           /\ (call.outcome = "ServiceNotFound") <=>
                  \E k \in 1..Len(call.args.names) : ~ HasName(call.before, call.args.names[k])
           /\ (call.outcome = "ServiceNotFound") => (all_observers_ = call.before /\ spc = "idle")

\* start_observers named a registered observer and then an unregistered one
C9_Witness ==
    /\ call.op = "start_observers"
    /\ call.outcome = "ServiceNotFound"
    /\ Len(call.args.names) = 2
    /\ HasName(all_observers_, call.args.names[1])
    /\ ~ HasName(all_observers_, call.args.names[2])
    /\ Len(all_observers_) = 2

\* C10: when the one interrupt of a start_observer call arrives in the join
\* loop, the call is not left by the interrupt: the except clause runs with
\* the observer Running, and the call ends returning, the observer Stopped.
C10_InterruptStopsAndReturns ==
    (call.op = "start_observer" /\ intr = << "join" >>) =>
        /\ call.before[sidx].state = "Created"
        /\ spc \in { "except", "final_join", "idle" }
        /\ spc = "except" => (call.outcome = "pending" /\ all_observers_[sidx].state = "Running")
        /\ spc = "final_join" => (call.outcome = "pending" /\ all_observers_[sidx].state = "Stopped")
        /\ spc = "idle" => (call.outcome = "returned" /\ all_observers_[sidx].state = "Stopped")

\* a start with no duration was interrupted in its join loop and has returned
C10_Witness ==
    /\ call.op = "start_observer"
    /\ call.args.duration = 0
    /\ intr = << "join" >>
    /\ spc = "idle"
    /\ call.outcome = "returned"
    /\ all_observers_[sidx].state = "Stopped"

\* C11: when start_observers(names, THREAD) over registered observers has
\* returned, every observer it named has been started: none of them is left
\* in the state Created that precedes the watch loop.
C11_StartManyStartsAll ==
    (call.op = "start_observers" /\ call.args.start_method = "THREAD"
        /\ call.outcome = "returned") =>
        \A k \in 1..Len(call.args.names) :
            all_observers_[get_by_name(call.args.names[k], all_observers_)].state # "Created"

\* C27: in start_observers, under either start method, the worker that has
\* taken the task of an observer has the name of that observer.
C27_WorkerNamedAfterObserver ==
    (call.op = "start_observers" /\ spc = "pool") =>
        \A k \in 1..Len(workers) :
            workers[k].pc = "done" =>
                workers[k].name = all_observers_[workers[k].obs].name

---------------------------------------------------------------------------
(* Claims about the change-log, checked under SpecLog. *)

\* the (event type, observer name, path) entries of a change-log
Triples(data) ==
    UNION { UNION { { <<e[1], f[1], f[2][i]>> : i \in 1..Len(f[2]) } : f \in e[2] } : e \in data }

\* the entry the event of thread w belongs under
OwnTriple(w) == <<wk[w].event.event_type, w, wk[w].event.src_path>>

\* the dict thread w got from read_current_data
FoundData(w) == IF wk[w].found.kind = "json" THEN wk[w].found.data ELSE {}

\* thread w has been through analyse_change for its last event
Analysed(w) ==
    /\ wk[w].event # NoEvent
    /\ wk[w].pc # "read"
    /\ dispatch(wk[w].event) = "write_change"

\* C12: every path in the change-log stands under the event type and the
\* observer name it was dispatched with, and the dict a dispatch builds differs
\* from the one it read by no entry but [its type][its name].
C12_LoggedUnderOwnKey ==
    /\ file_.kind = "json" => Triples(file_.data) \subseteq disp.seen
    /\ \A w \in LogNames :
           (Analysed(w) /\ wk[w].raised = "none") =>
               Triples(wk[w].change) \ Triples(FoundData(w)) \subseteq { OwnTriple(w) }

\* both observers have an entry in the change-log, under different event types
C12_Witness ==
    /\ file_.kind = "json"
    /\ \E x, y \in Triples(file_.data) : x[1] # y[1] /\ x[2] # y[2]
    /\ \A w \in LogNames : wk[w].wrote

\* C13: no directory stands under "modified" in the change-log; a dispatch of
\* a modified event writes the change-log exactly when the path is no
\* directory, and the dict it writes has the path under ["modified"][name].
C13_DirectoryModifyNotLogged ==
    /\ \A x \in Triples(file_.data) : x[1] = "modified" => ~ isdir(x[3])
    /\ \A w \in LogNames :
           (wk[w].pc = "idle" /\ wk[w].event.event_type = "modified") =>
               /\ wk[w].wrote <=> ~ isdir(wk[w].event.src_path)
               /\ wk[w].wrote => OwnTriple(w) \in Triples(wk[w].change)

\* a modified event of the directory was dispatched and left no entry, one of
\* the file in it is logged
C13_Witness ==
    /\ \E w \in LogNames : <<"modified", w, P_a_x>> \in disp.seen
    /\ \E w \in LogNames : <<"modified", w, P_a_x_l>> \in Triples(file_.data)
    /\ \A w \in LogNames : wk[w].pc = "idle"

\* the five keys, each an object of lists in which no path occurs twice
WellFormed(data) ==
    /\ { e[1] : e \in data } = EventTypes
    /\ Cardinality(data) = Cardinality(EventTypes)
    /\ \A e \in data : \A f \in e[2] :
           /\ \A g \in e[2] : g[1] = f[1] => g = f
           /\ \A i, j \in 1..Len(f[2]) : i # j => f[2][i] # f[2][j]

\* C14: once a write_change has completed and none is between opening and
\* closing the file, the change-log is an object of exactly the five keys, each
\* from observer names to lists without a repeated path; a write_change for an
\* entry the file already had leaves the set of entries as it was.
C14_ChangeLogShape ==
    /\ ((\E w \in LogNames : wk[w].wrote) /\ (\A w \in LogNames : wk[w].pc # "dump")) =>
           (file_.kind = "json" /\ WellFormed(file_.data))
    /\ \A w \in LogNames :
           (wk[w].wrote /\ OwnTriple(w) \in Triples(FoundData(w))) =>
               Triples(wk[w].change) = Triples(FoundData(w))

\* an entry was logged a second time
C14_Witness ==
    \E w \in LogNames :
        /\ wk[w].wrote
        /\ OwnTriple(w) \in Triples(FoundData(w))
        /\ file_ = FileJson(wk[w].change)

\* C15: when both threads have written the change-log for their events and
\* are out of write_change, the change-log has the path of each.
C15_NoLostUpdate ==
    (\A w \in LogNames : wk[w].pc = "idle" /\ wk[w].wrote) =>
        \A w \in LogNames : OwnTriple(w) \in Triples(file_.data)

WrittenSeen == { t \in disp.seen : dispatch(Event(t[1], t[3])) = "write_change" }

\* C26: a write_change that read a well-formed change-log builds the entries
\* it read and the entry of its event, no more and no fewer; so when no two
\* calls of write_change overlapped and every call is over, the change-log
\* has the entry of every event dispatched to it.
C26_SequentialWriteKeepsAll ==
    /\ \A w \in LogNames :
           ( /\ Analysed(w)
             /\ wk[w].found.kind = "json"
             /\ WellFormed(wk[w].found.data) ) =>
               /\ wk[w].raised = "none"
               /\ Triples(wk[w].change) = Triples(wk[w].found.data) \cup { OwnTriple(w) }
    /\ (~ disp.overlap /\ \A w \in LogNames : wk[w].pc = "idle") =>
           Triples(file_.data) = WrittenSeen

\* two calls of write_change ran one after the other, the second for another
\* observer under the event type of the first, and both entries are logged
C26_Witness ==
    /\ ~ disp.overlap
    /\ \A w \in LogNames : wk[w].pc = "idle" /\ wk[w].wrote
    /\ Cardinality(Triples(file_.data)) = 2
    /\ \E x, y \in Triples(file_.data) : x[1] = y[1] /\ x[2] # y[2]

---------------------------------------------------------------------------
(* Claims about defining and finding services, checked under SpecDefine. *)

\* C17: when create_service(path, name, run_on_startup) is over, either the
\* name was registered before, the call failed with AlreadyExists and the
\* registry is as it was, or the call returned and a lookup by the name finds
\* a descriptor with that run_on_startup.
C17_DefineRegisters ==
    call.op = "create_service" =>
        LET n == create_service_name(call.args.path, call.args.name)
        IN  IF HasName(call.before, n)
            THEN call.outcome = "AlreadyExists" /\ services = call.before
            ELSE /\ call.outcome = "returned"
                 /\ get_by_name(n, services) # 0
                 /\ services[get_by_name(n, services)].run_on_startup = call.args.run_on_startup

\* C18: init_services of a manager made after the service files were written
\* returns with a registry that has exactly the names and run_on_startup
\* flags of the services the files were written for.
C18_DiscoverRoundTrip ==
    (call.op = "init_services" /\ disk # {}) =>
        /\ call.outcome = "returned"
        /\ { <<services[i].name, services[i].run_on_startup>> : i \in 1..Len(services) }
               = { <<f.name, f.run_on_startup>> : f \in disk }

---------------------------------------------------------------------------
(* Claims about service processes, checked under SpecService. *)

\* the processes service i started, out of a process table
Launched(table, i) == { k \in 1..Len(table) : table[k].owner = i }

\* C19: asking a service that started no process for its pid raises
\* ServicePIDNotFound, and asking one whose process is alive returns the pid of
\* that process, whatever the name and the service directory of the service.
C19_ResolvePid ==
    call.op = "pid" =>
        LET i == call.args.service
            alive == { k \in Launched(call.before, i) : call.before[k].alive }
        IN  /\ ( /\ Launched(call.before, i) = {}
                 /\ \A j \in 1..Len(wsvc) :
                        j # i => lower(service_name(wsvc[j])) # lower(service_name(wsvc[i])) )
                    => call.outcome = "ServicePIDNotFound"
            /\ alive # {} =>
                   /\ call.outcome = "returned"
                   /\ \E k \in alive : call.args.pid = pid_of(k)

\* C20: ServiceManager.send_signal(name, sig) delivers sig, and nothing else,
\* to the live process of the service of that name, and delivers nothing when
\* there is no such process.
C20_SignalDelivered ==
    call.op = "send_signal" =>
        LET alive == { k \in 1..Len(call.before) :
                         /\ call.before[k].alive
                         /\ lower(service_name(wsvc[call.before[k].owner])) = call.args.name }
        IN  IF alive = {}
            THEN call.args.delivered = <<>>
            ELSE /\ call.outcome = "returned"
                 /\ \E k \in alive :
                        call.args.delivered = << [ pid |-> pid_of(k), sig |-> call.args.sig ] >>

---------------------------------------------------------------------------
(* Claims about stopping and signalling services, checked under SpecService *)
(* and SpecStop.                                                            *)

\* what a call reports of a result: it returned or the exception it raised
Outcome(r) == IF r.raised = "none" THEN "returned" ELSE r.raised

\* the descriptor a stop call found: the service as it is, with the flag the
\* call found
Found(i) == [ wsvc[i] EXCEPT !.is_active = call.args.was_active ]

\* C21: a stop has the outcome a SIGKILL signal would have had on the same
\* service and the same process table: the same signals delivered, or the same
\* exception; for WatchdogService.stop and for ServiceManager.stop_service.
C21_StopIsSigkill ==
    /\ call.op = "stop" =>
           LET g == service_send_signal(Found(call.args.service), call.before, SIGKILL)
           IN  /\ call.outcome = Outcome(g)
               /\ call.args.delivered = g.sent
    /\ call.op = "stop_service" =>
           LET g == send_signal(call.args.name, call.before, SIGKILL)
           IN  /\ call.outcome = Outcome(g)
               /\ call.args.delivered = g.sent

\* the live processes of the services of that name, out of a process table
LiveOfName(table, name) ==
    { k \in 1..Len(table) :
        /\ table[k].alive
        /\ lower(service_name(wsvc[table[k].owner])) = name }

\* C22: a pid lookup, a signal or a stop whose scan of the process table finds
\* no process of the service ends in ServicePIDNotFound, delivers no signal and
\* leaves the is_active flag as it was; for the calls
\* on a WatchdogService and for those of the ServiceManager.
C22_PidNotFoundSurfaced ==
    /\ ( /\ call.op \in { "pid", "service.send_signal" }
         /\ get_pid(wsvc[call.args.service], call.before) = 0 ) =>
           /\ call.outcome = "ServicePIDNotFound"
           /\ call.op = "service.send_signal" => call.args.delivered = <<>>
    /\ ( /\ call.op = "stop"
         /\ call.args.was_active
         /\ get_pid(wsvc[call.args.service], call.before) = 0 ) =>
           /\ call.outcome = "ServicePIDNotFound"
           /\ call.args.delivered = <<>>
           /\ wsvc[call.args.service].is_active
    /\ ( /\ call.op \in { "send_signal", "stop_service" }
         /\ LiveOfName(call.before, call.args.name) = {} ) =>
           /\ call.outcome = "ServicePIDNotFound"
           /\ call.args.delivered = <<>>

---------------------------------------------------------------------------
(* A claim about autostart files, checked under SpecDefine. *)

\* the autostart files on a disk
AutostartFiles(files) == { f \in files : endswith(f.file, S_autostart_desktop) }

\* C23: every autostart file on the disk was written for a service with
\* run_on_startup, and after a schedule or a launch of a service with
\* run_on_startup the disk has an autostart file of that service.
C23_AutostartOnlyOnStartup ==
    /\ \A f \in AutostartFiles(disk) : f.run_on_startup
    /\ ( /\ call.op = "schedule"
         /\ wsvc[call.args.service].run_on_startup ) =>
           \E f \in AutostartFiles(disk) : f.name = service_name(wsvc[call.args.service])
    /\ ( /\ call.op = "launch_service"
         /\ \E i \in 1..Len(call.before) :
                call.before[i].name = call.args.name /\ call.before[i].run_on_startup ) =>
           \E f \in AutostartFiles(disk) : f.name = call.args.name

\* C29: a stop() on a service whose is_active is false raises
\* ServiceNotRunning, delivers no signal and leaves the flag false; a new
\* service is inactive, the flag becomes true in start() alone and false again
\* in a stop() alone that returned with its SIGKILL delivered.
C29_StopNeedsActive ==
    /\ []( (call.op = "stop" /\ ~ call.args.was_active) =>
               /\ call.outcome = "ServiceNotRunning"
               /\ call.args.delivered = <<>>
               /\ ~ wsvc[call.args.service].is_active )
    /\ [][ /\ \A i \in 1..Len(wsvc) :
                  (~ wsvc[i].is_active /\ wsvc'[i].is_active) =>
                      (call'.op = "start" /\ call'.args.service = i)
           /\ \A i \in 1..Len(wsvc) :
                  (wsvc[i].is_active /\ ~ wsvc'[i].is_active) =>
                      /\ call'.op = "stop"
                      /\ call'.args.service = i
                      /\ call'.outcome = "returned"
                      /\ Len(call'.args.delivered) = 1
                      /\ call'.args.delivered[1].sig = SIGKILL
           /\ \A i \in (Len(wsvc) + 1)..Len(wsvc') : ~ wsvc'[i].is_active ]_vars

\* stop() was refused on an inactive descriptor of a service whose process,
\* started through another descriptor, is running
C29_Witness ==
    /\ call.op = "stop"
    /\ call.outcome = "ServiceNotRunning"
    /\ get_pid(wsvc[call.args.service], procs) # 0
    /\ \E j \in 1..Len(wsvc) : wsvc[j].is_active

\* C30: no service has two live processes it started, and when a stop() has
\* returned no process the service started is alive.
C30_OneProcessPerDescriptor ==
    /\ \A i \in 1..Len(wsvc) :
           Cardinality({ k \in Launched(procs, i) : procs[k].alive }) <= 1
    /\ (call.op = "stop" /\ call.outcome = "returned") =>
           \A k \in Launched(procs, call.args.service) : ~ procs[k].alive

---------------------------------------------------------------------------
(* A claim about services of distinct names, checked under SpecPair. *)

\* the service that started the process of that pid
OwnerOf(table, pid) == table[pid - PidBase].owner

\* the process of that pid was started by service i or by a service of the
\* name of service i
OwnProcess(table, pid, i) ==
    \/ OwnerOf(table, pid) = i
    \/ service_name(wsvc[OwnerOf(table, pid)]) = service_name(wsvc[i])

\* C31: the pid a service resolves, and the pid a signal or a stop of the
\* service reaches, is that of a process the service itself started, never
\* that of a process of a service with another name.
C31_OwnProcessOnly ==
    /\ (call.op = "pid" /\ call.outcome = "returned") =>
           OwnProcess(call.before, call.args.pid, call.args.service)
    /\ call.op \in { "service.send_signal", "stop" } =>
           \A k \in 1..Len(call.args.delivered) :
               OwnProcess(call.before, call.args.delivered[k].pid, call.args.service)

=============================================================================
